---- MODULE Spec2Model ----
(***************************************************************************)
(* Model of mult.py: the back-and-forth controller that alternates the     *)
(* PPO multiplier search and the MCTS adder search.                        *)
(*                                                                         *)
(* Text is modelled as a sequence of tokens (a token is a short string: a  *)
(* field's text, a tab, a blank, a newline, a slash, ...), so that strip,  *)
(* split, startswith, "in" and float are computed, not assumed.            *)
(***************************************************************************)
EXTENDS Integers, Sequences, FiniteSets, TLC

VARIABLES
    \* ---- main() ----
    pc,                  \* position of main() in its loop
    i,                   \* the loop variable i of main()
    it,                  \* next value the range(total_times) iterator yields
    area_w,              \* args.area_w
    input_bit,           \* args.input_bit
    flog,                \* lines written to the run log, in order
    flushed,             \* number of run-log writes flushed so far
    closed,              \* flog.close() has been called
    template_adder_name, \* local of main(); <<>> while unbound
    template_mult_name,  \* local of main(); <<>> while unbound
    verilog_file_name,   \* local of main(): winner of the last selection
    mult_dir,            \* multiplier_template/: key -> file content
    adder_dir,           \* adder_template/: key -> file content
    jobs,                \* every external job invoked, in order
    running,             \* number of external jobs currently running
    exits,               \* exit status of every job that has ended
    logs_read,           \* result log found by each selection
    srcs_read,           \* source file found by each template extraction
    raised,              \* the exception that ended main(), "" when none
    \* ---- one call of a selection function ----
    sel_pc, sel_log, sel_ret,
    \* ---- one call of save_adder_file / save_mult_file ----
    ext_pc, ext_src, ext_bit, ext_out,
    \* ---- one call of capture_subprocess_output ----
    cap_pc,              \* position of capture_subprocess_output
    child,               \* "running" or "exited"
    return_code,         \* the exit status of the child
    emitted,             \* every line the child has written, in order
    pipe,                \* lines written and not yet read from the pipe
    rdbuf,               \* lines read from the pipe, held in process.stdout
    buf,                 \* the StringIO buf
    stdout,              \* what the callback wrote to sys.stdout
    cap_ret              \* the returned (success, output)

mainVars == <<pc, i, it, flog, flushed, closed, template_adder_name,
              template_mult_name, verilog_file_name, mult_dir, adder_dir,
              jobs, running, exits, logs_read, srcs_read, raised>>
selVars  == <<sel_pc, sel_log, sel_ret>>
extVars  == <<ext_pc, ext_src, ext_bit, ext_out>>
capVars  == <<cap_pc, child, return_code, emitted, pipe, rdbuf, buf, stdout,
              cap_ret>>
vars     == <<mainVars, area_w, input_bit, selVars, extVars, capVars>>

-----------------------------------------------------------------------------
(* Bounds of the model *)
MaxW       == 2   \* area_w ranges over 0..MaxW
MaxRecs    == 3   \* lines of a result log in the selection specification
MaxLines   == 5   \* lines of a source file in the extraction specification
MaxBit     == 2   \* input_bit of save_adder_file ranges over 0..MaxBit
MaxOut     == 3   \* lines the child writes in the capture specification

(* Program constants *)
total_times == 3

-----------------------------------------------------------------------------
(* Text helpers: str.strip, str.split, str.startswith, "in", float *)

TAB == "\t"
NL  == "\n"
Whitespace == {" ", TAB, NL}

RECURSIVE lstrip(_)
lstrip(s) ==
    IF s # <<>> /\ Head(s) \in Whitespace THEN lstrip(Tail(s)) ELSE s

RECURSIVE rstrip(_)
rstrip(s) ==
    IF s # <<>> /\ s[Len(s)] \in Whitespace
    THEN rstrip(SubSeq(s, 1, Len(s) - 1))
    ELSE s

strip(s) == rstrip(lstrip(s))

(* s.split(sep): the fields between the separators; "".split(sep) is [""] *)
RECURSIVE split(_, _)
split(s, sep) ==
    IF \A k \in 1..Len(s) : s[k] # sep
    THEN <<s>>
    ELSE LET k == CHOOSE j \in 1..Len(s) :
                      s[j] = sep /\ \A h \in 1..(j - 1) : s[h] # sep
         IN  <<SubSeq(s, 1, k - 1)>> \o split(SubSeq(s, k + 1, Len(s)), sep)

startswith(s, prefix) ==
    Len(s) >= Len(prefix) /\ SubSeq(s, 1, Len(prefix)) = prefix

contains(s, tok) == \E k \in 1..Len(s) : s[k] = tok

(* The decimal numerals the model uses, and float() on them.  float()      *)
(* ignores surrounding whitespace and raises ValueError on anything else.  *)
Numerals == <<"0", "1", "2", "3", "4", "5", "6", "7", "8", "9">>
IsFloat(field) ==
    LET f == strip(field)
    IN  Len(f) = 1 /\ \E n \in 1..Len(Numerals) : Numerals[n] = f[1]
float(field) ==
    LET f == strip(field)
    IN  (CHOOSE n \in 1..Len(Numerals) : Numerals[n] = f[1]) - 1

(* Python's None, and a bound value *)
None    == [isNone |-> TRUE,  v |-> <<>>]
Some(x) == [isNone |-> FALSE, v |-> x]

(* A file on disk: absent, or a sequence of lines *)
Absent      == [exists |-> FALSE, lines |-> <<>>]
File(lines) == [exists |-> TRUE,  lines |-> lines]

-----------------------------------------------------------------------------
(* get_best_file_from_ppo / get_best_file_from_mcts.  The two functions    *)
(* differ only in the path of the log they open; their bodies (lines       *)
(* 82-101 and 111-128) are the same text and are modelled once.            *)

(* best_score = float("inf"); best_verilog_file = None; best_data_line = None *)
Inf == [inf |-> TRUE, v |-> 0]
Num(n) == [inf |-> FALSE, v |-> n]
SelInit ==
    [best_score |-> Inf, best_verilog_file |-> None, best_data_line |-> None,
     raised |-> ""]

(* score < best_score; the mutant compares with <= *)
ScoreLess_orEqual(score, best) == best.inf \/ score <= best.v
ScoreLess(score, best) == best.inf \/ score < best.v

(* The exception the four float(parts[k]) raise, evaluated left to right:  *)
(* IndexError when parts has no index k, ValueError when parts[k] is not a *)
(* number; "" when all four evaluate.  parts is 1-based here, so the       *)
(* source's parts[1]..parts[4] are parts[2]..parts[5].                     *)
RECURSIVE FieldError(_, _)
FieldError(parts, k) ==
    IF k > 5 THEN ""
    ELSE IF Len(parts) < k THEN "IndexError"
    ELSE IF ~IsFloat(parts[k]) THEN "ValueError"
    ELSE FieldError(parts, k + 1)

(* score = float(parts[1]) + float(parts[2]) * args.area_w
         + float(parts[3]) + float(parts[4]) * args.area_w *)
ScoreOf(parts, w) ==
    float(parts[2]) + float(parts[3]) * w + float(parts[4]) + float(parts[5]) * w

(* One iteration of "for line in fopen" *)
ScanLine(st, line, w) ==
    LET raw_line == strip(line)
        parts    == split(raw_line, TAB)
        err      == FieldError(parts, 2)
    IN  IF err # "" THEN [st EXCEPT !.raised = err]
        ELSE IF ScoreLess(ScoreOf(parts, w), st.best_score)
        THEN [st EXCEPT !.best_score = Num(ScoreOf(parts, w)),
                        !.best_verilog_file = Some(parts[1]),
                        !.best_data_line = Some(raw_line)]
        ELSE st

(* The whole loop; an exception ends it at the line that raises *)
RECURSIVE ScanLines(_, _, _)
ScanLines(st, lines, w) ==
    IF lines = <<>> \/ st.raised # "" THEN st
    ELSE ScanLines(ScanLine(st, Head(lines), w), Tail(lines), w)

(* assert os.path.exists(log_path); the loop; the return statement *)
GetBestFile(log, w) ==
    IF ~log.exists
    THEN [raised |-> "AssertionError", file |-> None, line |-> None]
    ELSE LET st == ScanLines(SelInit, log.lines, w)
         IN  IF st.raised # ""
             THEN [raised |-> st.raised, file |-> None, line |-> None]
             ELSE [raised |-> "", file |-> st.best_verilog_file,
                   line |-> st.best_data_line]

get_best_file_from_ppo(log, w)  == GetBestFile(log, w)
(* the mutant lacks the assert of line 109 and reads a missing log as empty *)
get_best_file_from_mcts_noAssert(log, w) == GetBestFile(File(log.lines), w)
get_best_file_from_mcts(log, w) == GetBestFile(log, w)

-----------------------------------------------------------------------------
(* save_mult_file and save_adder_file on the lines of the source file *)

SLASH  == "/"
MARKER == "module adder(a,b,s);"
AdderMarker == <<MARKER>>      \* the text "module adder(a,b,s);"
CommentMark == <<SLASH, SLASH>> \* the text "//"

(* The mutant skips the marker line and goes on copying (continue for     *)
(* break)                                                                  *)
RECURSIVE MultCopy_continue(_)
MultCopy_continue(lines) ==
    IF lines = <<>> THEN <<>>
    ELSE IF ~startswith(Head(lines), <<"module adder(a,b,s);">>)
    THEN <<Head(lines)>> \o MultCopy_continue(Tail(lines))
    ELSE MultCopy_continue(Tail(lines))

(* save_mult_file, lines 143-147: copy until the first marker line *)
RECURSIVE MultCopy(_)
MultCopy(lines) ==
    IF lines = <<>> THEN <<>>
    ELSE IF ~startswith(Head(lines), AdderMarker)
    THEN <<Head(lines)>> \o MultCopy(Tail(lines))
    ELSE <<>>

(* The mutant tests the counter before the "2" test and so stops looking  *)
(* at comment lines once cnt has reached the bound only by way of cnt:     *)
(* a comment with "2" is copied while cnt < bit_width                      *)
AdderLine_counterFirst(st, line, bit_width) ==
    IF ~startswith(line, CommentMark)
    THEN LET found == st.find_adder \/ startswith(line, AdderMarker)
         IN  IF found
             THEN [st EXCEPT !.find_adder = TRUE,
                             !.fwrite = Append(st.fwrite, line)]
             ELSE st
    ELSE IF st.cnt < bit_width
    THEN [st EXCEPT !.fwrite = Append(st.fwrite, line), !.cnt = st.cnt + 1]
    ELSE st

(* One iteration of the loop of save_adder_file, lines 168-184 *)
AdderLine(st, line, bit_width) ==
    IF ~startswith(line, CommentMark)
    THEN LET found == st.find_adder \/ startswith(line, AdderMarker)
         IN  IF found
             THEN [st EXCEPT !.find_adder = TRUE,
                             !.fwrite = Append(st.fwrite, line)]
             ELSE st
    ELSE IF contains(line, "2") THEN st
    ELSE IF st.cnt < bit_width
    THEN [st EXCEPT !.fwrite = Append(st.fwrite, line), !.cnt = st.cnt + 1]
    ELSE st

RECURSIVE AdderLoop(_, _, _)
AdderLoop(st, lines, bit_width) ==
    IF lines = <<>> THEN st
    ELSE AdderLoop(AdderLine(st, Head(lines), bit_width), Tail(lines), bit_width)

(* cnt = 0; find_adder = False; the loop; the content written to dest_path *)
AdderCopy(lines, bit_width) ==
    AdderLoop([cnt |-> 0, find_adder |-> FALSE, fwrite |-> <<>>],
              lines, bit_width).fwrite

(* The outcome of opening the source: os.path.join raises TypeError on a  *)
(* None name, open(source_path, "r") raises FileNotFoundError on a missing *)
(* file; both before open(dest_path, "w") creates the template.            *)
OpenError(name, src) ==
    IF name.isNone THEN "TypeError"
    ELSE IF ~src.exists THEN "FileNotFoundError"
    ELSE ""

(* The mutant clears dest_dir before it writes the template *)
WriteFile_clearsDir(dir, key, content) == [k \in {key} |-> content]

(* dest_dir after the template of round key has been (over)written *)
WriteFile(dir, key, content) ==
    [k \in DOMAIN dir \cup {key} |-> IF k = key THEN content ELSE dir[k]]

(* save_mult_file(verilog_file_name, strftime_str): the exception raised   *)
(* ("" when none), multiplier_template/ afterwards and the returned name   *)
save_mult_file(dir, verilog_file, src, key) ==
    LET err == OpenError(verilog_file, src)
    IN  IF err # ""
        THEN [raised |-> err, dir |-> dir, name |-> <<>>]
        ELSE [raised |-> "", dir |-> WriteFile(dir, key, MultCopy(src.lines)),
              name |-> <<"mult_template", key>>]

(* save_adder_file(verilog_file_name, strftime_str, input_bit) likewise *)
save_adder_file(dir, verilog_file, src, key, bit_width) ==
    LET err == OpenError(verilog_file, src)
    IN  IF err # ""
        THEN [raised |-> err, dir |-> dir, name |-> <<>>]
        ELSE [raised |-> "",
              dir |-> WriteFile(dir, key, AdderCopy(src.lines, bit_width)),
              name |-> <<"adder_template", key>>]

-----------------------------------------------------------------------------
(* Values the unused parts of the state hold in each specification *)

IdleMain ==
    /\ pc = "idle" /\ i = 0 /\ it = 0
    /\ flog = <<>> /\ flushed = 0 /\ closed = FALSE
    /\ template_adder_name = <<>> /\ template_mult_name = <<>>
    /\ verilog_file_name = None
    /\ mult_dir = <<>> /\ adder_dir = <<>>
    /\ jobs = <<>> /\ running = 0 /\ exits = <<>>
    /\ logs_read = <<>> /\ srcs_read = <<>> /\ raised = ""
NoResult == [raised |-> "", file |-> None, line |-> None]
NoSaved  == [raised |-> "", dir |-> <<>>, name |-> <<>>]
IdleSel == sel_pc = "idle" /\ sel_log = Absent /\ sel_ret = NoResult
IdleExt == ext_pc = "idle" /\ ext_src = Absent /\ ext_bit = 0 /\ ext_out = NoSaved
IdleCap ==
    /\ cap_pc = "idle" /\ child = "none" /\ return_code = 0
    /\ emitted = <<>> /\ pipe = <<>> /\ rdbuf = <<>>
    /\ buf = <<>> /\ stdout = <<>>
    /\ cap_ret = [success |-> FALSE, output |-> <<>>]

-----------------------------------------------------------------------------
(* main() *)

(* str(n) of a small non-negative integer *)
str(n) == Numerals[n + 1]

(* f"{timestamp}-{i}": the timestamp is fixed for the run; the mutant     *)
(* leaves the round index out of the key                                   *)
Key_noRound(n) == str(0)
Key(n) == str(n)

(* f"{x}" of a value that may be None *)
Format(x) == IF x.isNone THEN <<"None">> ELSE x.v

(* success = (return_code == 0); the mutants take every exit, or every    *)
(* non-negative exit status, for success                                   *)
Success_any(rc) == TRUE
Success_nonNegative(rc) == rc >= 0
Success(rc) == rc = 0

(* One record line of a result log: id, four metrics, tab separated *)
Record(id, m1, m2, m3, m4) ==
    <<id, TAB, str(m1), TAB, str(m2), TAB, str(m3), TAB, str(m4), NL>>

(* What the external jobs may leave on disk and print, in a run of main() *)
RecA == Record("a", 1, 0, 0, 0)
RecB == Record("b", 1, 1, 0, 1)
MainLogs ==
    { Absent, File(<<>>), File(<<RecA>>), File(<<RecB, RecA>>),
      File(<<<<"a", TAB, "1", TAB, "0", NL>>>>),
      File(<<RecA, <<"b", TAB, "1", TAB, "x", TAB, "0", TAB, "0", NL>>>>) }
SampleSource ==
    << <<SLASH, SLASH, "h", NL>>, <<"m", NL>>, <<MARKER, NL>>,
       <<SLASH, SLASH, "2", NL>>, <<"e", NL>> >>
MainSources == { Absent, File(SampleSource) }
Outputs     == { <<>>, <<"o", NL>> }
ExitCodes   == { 0, 1 }

(* The lines main() writes to the run log *)
IterationLine(n)      == <<"Iteration", str(n)>>
PpoFailedLine(n, out) ==
    <<"[ERROR] PPO2_mult.py failed during iteration", str(n), NL, "Output:", NL>>
       \o out
MctsFailedLine(n, out) ==
    <<"[ERROR] MCTS_mult.py failed during iteration", str(n), NL, "Output:", NL>>
       \o out
PpoRecordLine(data_line)  == <<"PPO:", TAB>> \o Format(data_line)
MctsRecordLine(data_line) == <<"MCTS", TAB>> \o Format(data_line)
TotalTimeLine == <<"Total Time Elapsed:">>
(* str(e) of the AssertionError of lines 80 and 109 *)
PpoLogMissing(key)  == <<"[ERROR]", "mult_logs", key, "does not exist.">>
MctsLogMissing(key) == <<"[ERROR]", "mcts_mult_adder", key, "does not exist.">>

(* Lines 213-223: ppo_cmd of round n, given the value of                   *)
(* template_adder_name; --template is added only when i > 0.  The mutant   *)
(* names the adder template of the round that starts, not of the last one. *)
PpoCmd_ownRound(n, template) ==
    [stage |-> "PPO", round |-> n, key |-> Key(n),
     template |-> IF n > 0 THEN <<"adder_template", Key(n)>> ELSE <<>>,
     init_state |-> FALSE]
PpoCmd(n, template) ==
    [stage |-> "PPO", round |-> n, key |-> Key(n),
     template |-> IF n > 0 THEN template ELSE <<>>,
     init_state |-> FALSE]

(* Lines 244-256: mcts_cmd of round n, given template_mult_name;           *)
(* --init_state is appended only when i > 0.  The mutant appends it in     *)
(* every round.                                                            *)
MctsCmd_alwaysInitState(n, template) ==
    [stage |-> "MCTS", round |-> n, key |-> Key(n), template |-> template,
     init_state |-> TRUE]
MctsCmd(n, template) ==
    [stage |-> "MCTS", round |-> n, key |-> Key(n), template |-> template,
     init_state |-> (n > 0)]

(* Lines 208 and 278: the value the range iterator yields next, after a    *)
(* loop body that ran i += 1.  The for statement takes its index from the  *)
(* iterator, which the assignment to i does not touch.  The mutant lets    *)
(* the body's increment advance the loop, as in a counted while loop.      *)
IterAfterBody_skips(next_index) == next_index + 1
IterAfterBody(next_index) == next_index

Write(line) == flog' = Append(flog, line)
Flush       == flushed' = Len(flog')

Crash(exc) ==
    /\ raised' = exc
    /\ pc' = "crashed"

(* Lines 208-226: the for statement takes the next index, the Iteration    *)
(* line is written and flushed, ppo_cmd is built and the PPO job started.  *)
(* Reading template_adder_name while it is unbound raises NameError.       *)
RoundStart ==
    /\ pc = "round_start"
    /\ it < total_times
    /\ i' = it
    /\ it' = it + 1
    /\ Write(IterationLine(it))
    /\ Flush
    /\ IF it > 0 /\ template_adder_name = <<>>
       THEN /\ Crash("NameError")
            /\ UNCHANGED <<jobs, running>>
       ELSE /\ jobs' = Append(jobs, PpoCmd(it, template_adder_name))
            /\ running' = running + 1
            /\ pc' = "stage1_run"
            /\ UNCHANGED raised
    /\ UNCHANGED <<closed, template_adder_name, template_mult_name,
                   verilog_file_name, mult_dir, adder_dir, exits, logs_read,
                   srcs_read>>
    /\ UNCHANGED <<area_w, input_bit, selVars, extVars, capVars>>

(* Line 208: range(total_times) is exhausted *)
LoopExit ==
    /\ pc = "round_start"
    /\ it >= total_times
    /\ pc' = "final"
    /\ UNCHANGED <<i, it, flog, flushed, closed, template_adder_name,
                   template_mult_name, verilog_file_name, mult_dir, adder_dir,
                   jobs, running, exits, logs_read, srcs_read, raised>>
    /\ UNCHANGED <<area_w, input_bit, selVars, extVars, capVars>>

(* The mutant writes the error line and goes on to the selection (no break) *)
Stage1Exit_noBreak ==
    /\ pc = "stage1_run"
    /\ \E rc \in ExitCodes, ppo_output \in Outputs :
          /\ running' = running - 1
          /\ exits' = Append(exits, [stage |-> "PPO", round |-> i, rc |-> rc,
                                   out |-> ppo_output])
          /\ IF ~Success(rc)
             THEN Write(PpoFailedLine(i, ppo_output))
             ELSE UNCHANGED flog
          /\ pc' = "stage1_select"
    /\ UNCHANGED <<i, it, flushed, closed, template_adder_name,
                   template_mult_name, verilog_file_name, mult_dir, adder_dir,
                   jobs, logs_read, srcs_read, raised>>
    /\ UNCHANGED <<area_w, input_bit, selVars, extVars, capVars>>

(* Lines 226-229: capture_subprocess_output returns for the PPO job *)
Stage1Exit ==
    /\ pc = "stage1_run"
    /\ \E rc \in ExitCodes, ppo_output \in Outputs :
          /\ running' = running - 1
          /\ exits' = Append(exits, [stage |-> "PPO", round |-> i, rc |-> rc,
                                   out |-> ppo_output])
          /\ IF ~Success(rc)
             THEN /\ Write(PpoFailedLine(i, ppo_output))
                  /\ pc' = "final"
             ELSE /\ pc' = "stage1_select"
                  /\ UNCHANGED flog
    /\ UNCHANGED <<i, it, flushed, closed, template_adder_name,
                   template_mult_name, verilog_file_name, mult_dir, adder_dir,
                   jobs, logs_read, srcs_read, raised>>
    /\ UNCHANGED <<area_w, input_bit, selVars, extVars, capVars>>

(* Lines 232-238: selection on the PPO log; only AssertionError is caught *)
Stage1Select ==
    /\ pc = "stage1_select"
    /\ \E log \in MainLogs :
          LET r == get_best_file_from_ppo(log, area_w)
          IN  /\ logs_read' = Append(logs_read,
                     [stage |-> "PPO", round |-> i, log |-> log])
              /\ IF r.raised = ""
                 THEN /\ verilog_file_name' = r.file
                      /\ Write(PpoRecordLine(r.line))
                      /\ Flush
                      /\ pc' = "template1_extract"
                      /\ UNCHANGED raised
                 ELSE IF r.raised = "AssertionError"
                 THEN /\ Write(PpoLogMissing(Key(i)))
                      /\ pc' = "final"
                      /\ UNCHANGED <<verilog_file_name, flushed, raised>>
                 ELSE /\ Crash(r.raised)
                      /\ UNCHANGED <<verilog_file_name, flog, flushed>>
    /\ UNCHANGED <<i, it, closed, template_adder_name, template_mult_name,
                   mult_dir, adder_dir, jobs, running, exits, srcs_read>>
    /\ UNCHANGED <<area_w, input_bit, selVars, extVars, capVars>>

(* Lines 241-259: save_mult_file, then mcts_cmd is built and the MCTS job  *)
(* started.  No exception of save_mult_file is caught.                     *)
Template1Extract ==
    /\ pc = "template1_extract"
    /\ \E src \in MainSources :
          LET r == save_mult_file(mult_dir, verilog_file_name, src, Key(i))
          IN  /\ srcs_read' = Append(srcs_read,
                     [stage |-> "PPO", round |-> i, src |-> src,
                      name |-> verilog_file_name])
              /\ IF r.raised # ""
                 THEN /\ Crash(r.raised)
                      /\ UNCHANGED <<mult_dir, template_mult_name, jobs, running>>
                 ELSE /\ mult_dir' = r.dir
                      /\ template_mult_name' = r.name
                      /\ jobs' = Append(jobs, MctsCmd(i, r.name))
                      /\ running' = running + 1
                      /\ pc' = "stage2_run"
                      /\ UNCHANGED raised
    /\ UNCHANGED <<i, it, flog, flushed, closed, template_adder_name,
                   verilog_file_name, adder_dir, exits, logs_read>>
    /\ UNCHANGED <<area_w, input_bit, selVars, extVars, capVars>>

(* The mutant starts the MCTS job again when it has failed *)
Stage2Exit_retry ==
    /\ pc = "stage2_run"
    /\ \E rc \in ExitCodes, mcts_output \in Outputs :
          /\ exits' = Append(exits, [stage |-> "MCTS", round |-> i, rc |-> rc,
                                   out |-> mcts_output])
          /\ IF ~Success(rc)
             THEN /\ Write(MctsFailedLine(i, mcts_output))
                  /\ jobs' = Append(jobs, MctsCmd(i, template_mult_name))
                  /\ UNCHANGED <<pc, running>>
             ELSE /\ pc' = "stage2_select"
                  /\ running' = running - 1
                  /\ UNCHANGED <<flog, jobs>>
    /\ UNCHANGED <<i, it, flushed, closed, template_adder_name,
                   template_mult_name, verilog_file_name, mult_dir, adder_dir,
                   logs_read, srcs_read, raised>>
    /\ UNCHANGED <<area_w, input_bit, selVars, extVars, capVars>>

(* Lines 259-262: capture_subprocess_output returns for the MCTS job *)
Stage2Exit ==
    /\ pc = "stage2_run"
    /\ \E rc \in ExitCodes, mcts_output \in Outputs :
          /\ running' = running - 1
          /\ exits' = Append(exits, [stage |-> "MCTS", round |-> i, rc |-> rc,
                                   out |-> mcts_output])
          /\ IF ~Success(rc)
             THEN /\ Write(MctsFailedLine(i, mcts_output))
                  /\ pc' = "final"
             ELSE /\ pc' = "stage2_select"
                  /\ UNCHANGED flog
    /\ UNCHANGED <<i, it, flushed, closed, template_adder_name,
                   template_mult_name, verilog_file_name, mult_dir, adder_dir,
                   jobs, logs_read, srcs_read, raised>>
    /\ UNCHANGED <<area_w, input_bit, selVars, extVars, capVars>>

(* Lines 265-271: selection on the MCTS log; only AssertionError is caught *)
Stage2Select ==
    /\ pc = "stage2_select"
    /\ \E log \in MainLogs :
          LET r == get_best_file_from_mcts(log, area_w)
          IN  /\ logs_read' = Append(logs_read,
                     [stage |-> "MCTS", round |-> i, log |-> log])
              /\ IF r.raised = ""
                 THEN /\ verilog_file_name' = r.file
                      /\ Write(MctsRecordLine(r.line))
                      /\ Flush
                      /\ pc' = "template2_extract"
                      /\ UNCHANGED raised
                 ELSE IF r.raised = "AssertionError"
                 THEN /\ Write(MctsLogMissing(Key(i)))
                      /\ pc' = "final"
                      /\ UNCHANGED <<verilog_file_name, flushed, raised>>
                 ELSE /\ Crash(r.raised)
                      /\ UNCHANGED <<verilog_file_name, flog, flushed>>
    /\ UNCHANGED <<i, it, closed, template_adder_name, template_mult_name,
                   mult_dir, adder_dir, jobs, running, exits, srcs_read>>
    /\ UNCHANGED <<area_w, input_bit, selVars, extVars, capVars>>

(* Lines 274-278: save_adder_file with input_bit * 2, then i += 1, which   *)
(* the for statement overwrites at the next iteration.                     *)
Template2Extract ==
    /\ pc = "template2_extract"
    /\ \E src \in MainSources :
          LET r == save_adder_file(adder_dir, verilog_file_name, src, Key(i),
                                   input_bit * 2)
          IN  /\ srcs_read' = Append(srcs_read,
                     [stage |-> "MCTS", round |-> i, src |-> src,
                      name |-> verilog_file_name])
              /\ IF r.raised # ""
                 THEN /\ Crash(r.raised)
                      /\ UNCHANGED <<adder_dir, template_adder_name, i, it>>
                 ELSE /\ adder_dir' = r.dir
                      /\ template_adder_name' = r.name
                      /\ i' = i + 1
                      /\ it' = IterAfterBody(it)
                      /\ pc' = "round_start"
                      /\ UNCHANGED raised
    /\ UNCHANGED <<flog, flushed, closed, template_mult_name,
                   verilog_file_name, mult_dir, jobs, running, exits, logs_read>>
    /\ UNCHANGED <<area_w, input_bit, selVars, extVars, capVars>>

(* Lines 281-284: total time written, flushed, the run log closed *)
Final ==
    /\ pc = "final"
    /\ Write(TotalTimeLine)
    /\ Flush
    /\ closed' = TRUE
    /\ pc' = "done"
    /\ UNCHANGED <<i, it, template_adder_name, template_mult_name,
                   verilog_file_name, mult_dir, adder_dir, jobs, running,
                   exits, logs_read, srcs_read, raised>>
    /\ UNCHANGED <<area_w, input_bit, selVars, extVars, capVars>>

(* Lines 191-206: the state of main() when the loop is entered *)
Init ==
    /\ pc = "round_start" /\ i = 0 /\ it = 0
    /\ area_w \in 0..MaxW
    /\ input_bit \in 1..MaxBit
    /\ flog = <<>> /\ flushed = 0 /\ closed = FALSE
    /\ template_adder_name = <<>> /\ template_mult_name = <<>>
    /\ verilog_file_name = None
    /\ mult_dir = <<>> /\ adder_dir = <<>>
    /\ jobs = <<>> /\ running = 0 /\ exits = <<>>
    /\ logs_read = <<>> /\ srcs_read = <<>> /\ raised = ""
    /\ IdleSel /\ IdleExt /\ IdleCap

Next ==
    \/ RoundStart
    \/ LoopExit
    \/ Stage1Exit
    \/ Stage1Select
    \/ Template1Extract
    \/ Stage2Exit
    \/ Stage2Select
    \/ Template2Extract
    \/ Final

Spec == Init /\ [][Next]_vars

-----------------------------------------------------------------------------
(* Reading the run log and the history of a run *)

Range(seq) == { seq[k] : k \in 1..Len(seq) }

JobFailedLine(stage, r, out) ==
    << IF stage = "PPO"
       THEN "[ERROR] PPO2_mult.py failed during iteration"
       ELSE "[ERROR] MCTS_mult.py failed during iteration",
       str(r), NL, "Output:", NL >> \o out
NotFoundLine(stage, r) ==
    << "[ERROR]", IF stage = "PPO" THEN "mult_logs" ELSE "mcts_mult_adder",
       Key(r), "does not exist." >>
TotalLine == <<"Total Time Elapsed:">>

IsErrorLine(l)  == startswith(l, <<"[ERROR]">>)
                   \/ l[1] = "[ERROR] PPO2_mult.py failed during iteration"
                   \/ l[1] = "[ERROR] MCTS_mult.py failed during iteration"
IsPpoLine(l)    == startswith(l, <<"PPO:", TAB>>)
IsMctsLine(l)   == startswith(l, <<"MCTS", TAB>>)
IsIterLine(l)   == l[1] = "Iteration"

(* The round an error or Iteration line names *)
RoundOf(l) == IF l[1] = "[ERROR]" THEN l[3] ELSE l[2]

Count(P(_)) == Cardinality({ k \in 1..Len(flog) : P(flog[k]) })

Ended == pc \in {"done", "crashed"}

(* Nothing of a round after r has happened: no Iteration line, no job *)
NoRoundAfter(r) ==
    /\ \A k \in 1..Len(flog) :
          IsIterLine(flog[k]) => \A q \in (r + 1)..total_times : RoundOf(flog[k]) # str(q)
    /\ \A j \in Range(jobs) : j.round <= r
    /\ it = r + 1

(* The run was aborted in round r as a reported failure *)
Aborted == pc \in {"final", "done"} /\ raised = ""

-----------------------------------------------------------------------------
C2_IsErrOfRound(r, l) == IsErrorLine(l) /\ RoundOf(l) = str(r)

(* C2: when the stage-1 job of round r exits non-zero, the run log has     *)
(* exactly one error line that names round r, and it carries the job's     *)
(* captured output; no template of round r exists, no stage-2 job of round *)
(* r was invoked, and no later round is attempted.                         *)
C2_Stage1FailureIsFatal ==
    \A e \in Range(exits) :
       (e.stage = "PPO" /\ e.rc # 0) =>
          /\ Cardinality({ k \in 1..Len(flog) : C2_IsErrOfRound(e.round, flog[k]) }) = 1
          /\ \E k \in 1..Len(flog) : flog[k] = JobFailedLine("PPO", e.round, e.out)
          /\ Key(e.round) \notin DOMAIN mult_dir
          /\ Key(e.round) \notin DOMAIN adder_dir
          /\ \A j \in Range(jobs) : ~(j.stage = "MCTS" /\ j.round = e.round)
          /\ NoRoundAfter(e.round)
          /\ Aborted
          /\ (e.round = 0 => mult_dir = <<>> /\ adder_dir = <<>>
                             /\ \A j \in Range(jobs) : j.stage # "MCTS")

(* A run whose stage-1 job failed in round 1, after a complete round 0 *)
C2_Witness ==
    /\ pc = "done"
    /\ \E e \in Range(exits) : e.stage = "PPO" /\ e.rc = 1 /\ e.round = 1
                                /\ e.out # <<>>

(* C3: when the stage-2 job of round r exits 0 and its result log is       *)
(* absent at selection, the "does not exist" line is written to the run    *)
(* log, the run is aborted, no adder template of round r is written and    *)
(* round r+1 is not started.                                               *)
C3_MissingStage2LogAborts ==
    \A g \in Range(logs_read) :
       (g.stage = "MCTS" /\ ~g.log.exists) =>
          /\ \E e \in Range(exits) :
                e.stage = "MCTS" /\ e.round = g.round /\ e.rc = 0
          /\ \E k \in 1..Len(flog) : flog[k] = NotFoundLine("MCTS", g.round)
          /\ Aborted
          /\ Key(g.round) \notin DOMAIN adder_dir
          /\ NoRoundAfter(g.round)

C3_Witness ==
    /\ pc = "done"
    /\ \E g \in Range(logs_read) : g.stage = "MCTS" /\ ~g.log.exists /\ g.round = 1

(* A record as the result-log format defines it: at least five            *)
(* tab-separated fields, fields 2-5 numbers                                *)
WellFormed(line) ==
    LET parts == split(strip(line), TAB)
    IN  Len(parts) >= 5 /\ \A k \in 2..5 : IsFloat(parts[k])

(* The lines of the stage logs of this model that parse as a record *)
ParsedLines ==
    { l \in UNION { Range(f.lines) : f \in MainLogs } : WellFormed(l) }

AllJobsExitZero == \A e \in Range(exits) : e.rc = 0
OneRecordLogs ==
    \A g \in Range(logs_read) :
       g.log.exists /\ Len(g.log.lines) = 1 /\ g.log.lines[1] \in ParsedLines
SourcesPresent == \A x \in Range(srcs_read) : x.src.exists

C4_Outcome ==
    /\ pc = "done"
    /\ Count(IsPpoLine) = total_times
    /\ Count(IsMctsLine) = total_times
    /\ flog[Len(flog)] = TotalLine
    /\ Cardinality(DOMAIN mult_dir) = total_times
    /\ Cardinality(DOMAIN adder_dir) = total_times

ReportedFailure(g) ==
    /\ Aborted
    /\ \E k \in 1..Len(flog) :
          IsErrorLine(flog[k]) /\ RoundOf(flog[k]) = Key(g.round)
    /\ IF g.stage = "PPO"
       THEN /\ Count(IsPpoLine) = g.round
            /\ Key(g.round) \notin DOMAIN mult_dir
            /\ \A j \in Range(jobs) : ~(j.stage = "MCTS" /\ j.round = g.round)
       ELSE /\ Count(IsMctsLine) = g.round
            /\ Key(g.round) \notin DOMAIN adder_dir
    /\ NoRoundAfter(g.round)

(* C5: selection on a result log that is absent, or present with zero      *)
(* records, gives the controller a reportable failure: it records the      *)
(* error and aborts, with no winner returned and no uncaught exception.    *)
C5_EmptyOrMissingLogReported ==
    \A g \in Range(logs_read) :
       (~g.log.exists \/ g.log.lines = <<>>) => ReportedFailure(g)

(* C6: a present result log with a line of fewer than five fields or a     *)
(* non-numeric metric makes the run end as a reported failure: a           *)
(* diagnostic line is in the run log and no later step is performed.       *)
C6_MalformedRecordReported ==
    \A g \in Range(logs_read) :
       (g.log.exists /\ \E k \in 1..Len(g.log.lines) : ~WellFormed(g.log.lines[k]))
          => ReportedFailure(g)

(* C7: however a run ends, the total-time line is the last line of the run *)
(* log, everything written is flushed and the run log is closed.           *)
C7_EveryEndWritesTotalAndCloses ==
    Ended => /\ closed
             /\ flog # <<>> /\ flog[Len(flog)] = TotalLine
             /\ flushed = Len(flog)

-----------------------------------------------------------------------------
(* One call of get_best_file_from_ppo or get_best_file_from_mcts on an     *)
(* arbitrary result log                                                    *)

(* All sequences over S of length at most n *)
SeqsUpTo(S, n) == UNION { [1..k -> S] : k \in 0..n }

Metrics ==
    { <<0, 0, 0, 0>>, <<1, 0, 0, 0>>, <<0, 1, 0, 0>>, <<0, 0, 1, 0>>,
      <<0, 0, 0, 1>> }
Ids     == {"a", "b"}
SelLines ==
    { Record(id, m[1], m[2], m[3], m[4]) : id \in Ids, m \in Metrics }
    \cup { <<" ", "c", TAB, "1", TAB, "0", TAB, "0", TAB, "1", " ", NL>>,
           <<"a", TAB, "1", TAB, "0", NL>>,
           <<"b", TAB, "0", TAB, "x", TAB, "0", TAB, "0", NL>> }
SelLogs == {Absent} \cup { File(ls) : ls \in SeqsUpTo(SelLines, MaxRecs) }

SelInitial ==
    /\ sel_pc = "call"
    /\ sel_log \in SelLogs
    /\ sel_ret = NoResult
    /\ area_w \in 0..MaxW
    /\ input_bit = 1
    /\ IdleMain /\ IdleExt /\ IdleCap

CallPpo ==
    /\ sel_pc = "call"
    /\ sel_ret' = get_best_file_from_ppo(sel_log, area_w)
    /\ sel_pc' = "ppo_returned"
    /\ UNCHANGED <<sel_log, area_w, input_bit, mainVars, extVars, capVars>>

CallMcts ==
    /\ sel_pc = "call"
    /\ sel_ret' = get_best_file_from_mcts(sel_log, area_w)
    /\ sel_pc' = "mcts_returned"
    /\ UNCHANGED <<sel_log, area_w, input_bit, mainVars, extVars, capVars>>

SelNext == CallPpo \/ CallMcts

SpecSel == SelInitial /\ [][SelNext]_vars

-----------------------------------------------------------------------------
(* One call of save_mult_file or save_adder_file on an arbitrary source    *)

CommentC  == <<SLASH, SLASH, "c", NL>>
CommentD  == <<SLASH, SLASH, "d", NL>>
Comment2  == <<SLASH, SLASH, "2", NL>>
MarkerLn  == <<MARKER, NL>>
MarkerX   == <<MARKER, " ", SLASH, SLASH, "x", NL>>
CodeLn    == <<"x", NL>>
SrcLines  == {CommentC, CommentD, Comment2, MarkerLn, MarkerX, CodeLn}
ExtSources == {Absent} \cup { File(ls) : ls \in SeqsUpTo(SrcLines, MaxLines) }
ExtName   == Some(<<"v">>)

ExtInitial ==
    /\ ext_pc = "call"
    /\ ext_src \in ExtSources
    /\ ext_bit \in 0..MaxBit
    /\ ext_out = NoSaved
    /\ area_w = 0
    /\ input_bit = 1
    /\ IdleMain /\ IdleSel /\ IdleCap

CallSaveMult ==
    /\ ext_pc = "call"
    /\ ext_out' = save_mult_file(<<>>, ExtName, ext_src, Key(0))
    /\ ext_pc' = "mult_saved"
    /\ UNCHANGED <<ext_src, ext_bit, area_w, input_bit, mainVars, selVars, capVars>>

CallSaveAdder ==
    /\ ext_pc = "call"
    /\ ext_out' = save_adder_file(<<>>, ExtName, ext_src, Key(0), ext_bit)
    /\ ext_pc' = "adder_saved"
    /\ UNCHANGED <<ext_src, ext_bit, area_w, input_bit, mainVars, selVars, capVars>>

ExtNext == CallSaveMult \/ CallSaveAdder

SpecExt == ExtInitial /\ [][ExtNext]_vars

-----------------------------------------------------------------------------
(* The fields and the score of a record, as the result-log format and the  *)
(* cost function define them                                               *)
C1_Fields(line) == split(strip(line), TAB)
C1_Score(line, w) ==
    LET f == C1_Fields(line)
    IN  float(f[2]) + float(f[3]) * w + float(f[4]) + float(f[5]) * w
C1_Applies ==
    /\ sel_pc \in {"ppo_returned", "mcts_returned"}
    /\ sel_log.exists
    /\ Len(sel_log.lines) >= 1
    /\ \A k \in 1..Len(sel_log.lines) : WellFormed(sel_log.lines[k])
C1_IsEarliestMinimum(k) ==
    /\ \A j \in 1..Len(sel_log.lines) :
          C1_Score(sel_log.lines[k], area_w) <= C1_Score(sel_log.lines[j], area_w)
    /\ \A j \in 1..(k - 1) :
          C1_Score(sel_log.lines[k], area_w) < C1_Score(sel_log.lines[j], area_w)
(* C1: on a result log of n >= 1 lines, all well-formed, both selection    *)
(* functions return the identifier and the trimmed raw line of the record  *)
(* of minimum score m1 + m2*w + m3 + m4*w, and of the earliest such record *)
(* when several have the minimum score.                                    *)
C1_SelectsEarliestMinimum ==
    C1_Applies =>
       \E k \in 1..Len(sel_log.lines) :
          /\ C1_IsEarliestMinimum(k)
          /\ sel_ret.raised = ""
          /\ sel_ret.file = Some(C1_Fields(sel_log.lines[k])[1])
          /\ sel_ret.line = Some(strip(sel_log.lines[k]))

(* Two records of different identifiers tie at the minimum, after a record *)
(* of higher score; the first of the two was returned, by the MCTS variant *)
C1_Witness ==
    /\ C1_Applies
    /\ sel_pc = "mcts_returned"
    /\ area_w > 0
    /\ \E k \in 1..Len(sel_log.lines), j \in 1..Len(sel_log.lines) :
          /\ 1 < k /\ k < j
          /\ C1_IsEarliestMinimum(k)
          /\ C1_Score(sel_log.lines[j], area_w) = C1_Score(sel_log.lines[k], area_w)
          /\ C1_Fields(sel_log.lines[j])[1] # C1_Fields(sel_log.lines[k])[1]
          /\ sel_log.lines[j] # sel_log.lines[k]
          /\ sel_ret.file = Some(C1_Fields(sel_log.lines[k])[1])

-----------------------------------------------------------------------------
(* The lines of a source that the adder template is to hold *)
C10_IsComment(l)  == startswith(l, <<SLASH, SLASH>>)
C10_Qualifies(l)  == C10_IsComment(l) /\ \A k \in 1..Len(l) : l[k] # "2"
C10_Kept(lines, k, bit_width) ==
    IF C10_IsComment(lines[k])
    THEN /\ C10_Qualifies(lines[k])
         /\ Cardinality({ j \in 1..k : C10_Qualifies(lines[j]) }) <= bit_width
    ELSE \E j \in 1..k : ~C10_IsComment(lines[j]) /\ startswith(lines[j], <<MARKER>>)
RECURSIVE C10_Expected(_, _, _)
C10_Expected(lines, k, bit_width) ==
    IF k > Len(lines) THEN <<>>
    ELSE (IF C10_Kept(lines, k, bit_width) THEN <<lines[k]>> ELSE <<>>)
            \o C10_Expected(lines, k + 1, bit_width)
C10_Applies == ext_pc = "adder_saved" /\ ext_src.exists
(* C10: the adder template consists, in source order, of exactly the       *)
(* non-comment lines at or after the first marker line and the first       *)
(* bit_width comment lines without "2"; comment lines with "2", later      *)
(* qualifying comment lines and non-comment lines before the marker are    *)
(* not copied.                                                             *)
C10_AdderTemplateContent ==
    C10_Applies =>
       /\ ext_out.raised = ""
       /\ DOMAIN ext_out.dir = {Key(0)}
       /\ ext_out.dir[Key(0)] = C10_Expected(ext_src.lines, 1, ext_bit)

(* bit_width = 1; a code line before the marker, a qualifying comment, a   *)
(* comment with "2" read while cnt = bit_width, a second qualifying        *)
(* comment, the marker: only the first comment and the marker are copied   *)
C10_Witness ==
    /\ C10_Applies
    /\ ext_bit = 1
    /\ ext_src.lines = <<CodeLn, CommentC, Comment2, CommentD, MarkerX>>
    /\ ext_out.dir[Key(0)] = <<CommentC, MarkerX>>

-----------------------------------------------------------------------------
(* One call of capture_subprocess_output, with the child process *)

(* The k-th line the child writes *)
ChildLine(k) == <<"o", str(k), NL>>

RECURSIVE Concat(_)
Concat(lines) ==
    IF lines = <<>> THEN <<>> ELSE Head(lines) \o Concat(Tail(lines))

(* Lines 40-55: the child is started, buf is empty, the selector registered *)
CapInitial ==
    /\ cap_pc = "poll"
    /\ child = "running"
    /\ return_code \in ExitCodes
    /\ emitted = <<>> /\ pipe = <<>> /\ rdbuf = <<>>
    /\ buf = <<>> /\ stdout = <<>>
    /\ cap_ret = [success |-> FALSE, output |-> <<>>]
    /\ area_w = 0
    /\ input_bit = 1
    /\ IdleMain /\ IdleSel /\ IdleExt

(* The child writes a line to its stdout or stderr, both the pipe *)
ChildWrite ==
    /\ child = "running"
    /\ Len(emitted) < MaxOut
    /\ emitted' = Append(emitted, ChildLine(Len(emitted) + 1))
    /\ pipe' = Append(pipe, ChildLine(Len(emitted) + 1))
    /\ UNCHANGED <<cap_pc, child, return_code, rdbuf, buf, stdout, cap_ret>>
    /\ UNCHANGED <<area_w, input_bit, mainVars, selVars, extVars>>

(* The child exits with status return_code; its end of the pipe closes *)
ChildExit ==
    /\ child = "running"
    /\ child' = "exited"
    /\ UNCHANGED <<cap_pc, return_code, emitted, pipe, rdbuf, buf, stdout, cap_ret>>
    /\ UNCHANGED <<area_w, input_bit, mainVars, selVars, extVars>>

(* process.poll() is None *)
PollIsNone(c) == c = "running"

(* Line 58: the loop test *)
Poll ==
    /\ cap_pc = "poll"
    /\ cap_pc' = IF PollIsNone(child) THEN "select" ELSE "wait"
    /\ UNCHANGED <<child, return_code, emitted, pipe, rdbuf, buf, stdout, cap_ret>>
    /\ UNCHANGED <<area_w, input_bit, mainVars, selVars, extVars>>

(* selector.select() has no timeout: it returns when the pipe holds data   *)
(* or is at end of file; what process.stdout has buffered does not count   *)
(* The mutant does not take end of file for readiness *)
Readable_dataOnly == pipe # <<>>
Readable == pipe # <<>> \/ child = "exited"

(* Lines 59-62 and 49-52: select returns, the callback reads one line and  *)
(* writes it to buf and to sys.stdout.  readline takes the line from the   *)
(* reader's buffer when it holds one; otherwise it reads a chunk, one or   *)
(* more of the lines in the pipe, and keeps the rest buffered; at end of   *)
(* file it returns the empty string.                                       *)
SelectAndRead ==
    /\ cap_pc = "select"
    /\ Readable
    /\ \E n \in 1..(IF Len(pipe) = 0 THEN 1 ELSE Len(pipe)) :
          LET fill   == rdbuf = <<>> /\ pipe # <<>>
              avail  == IF fill THEN SubSeq(pipe, 1, n) ELSE rdbuf
              line   == IF avail = <<>> THEN <<>> ELSE Head(avail)
          IN  /\ rdbuf' = IF avail = <<>> THEN <<>> ELSE Tail(avail)
              /\ pipe' = IF fill THEN SubSeq(pipe, n + 1, Len(pipe)) ELSE pipe
              /\ buf' = buf \o line
              /\ stdout' = stdout \o line
    /\ cap_pc' = "poll"
    /\ UNCHANGED <<child, return_code, emitted, cap_ret>>
    /\ UNCHANGED <<area_w, input_bit, mainVars, selVars, extVars>>

(* Lines 64-69: process.wait() returns once the child has exited; the      *)
(* selector and buf are closed and (success, output) returned              *)
Return ==
    /\ cap_pc = "wait"
    /\ child = "exited"
    /\ cap_ret' = [success |-> Success(return_code), output |-> buf]
    /\ cap_pc' = "returned"
    /\ UNCHANGED <<child, return_code, emitted, pipe, rdbuf, buf, stdout>>
    /\ UNCHANGED <<area_w, input_bit, mainVars, selVars, extVars>>

CapNext == ChildWrite \/ ChildExit \/ Poll \/ SelectAndRead \/ Return

SpecCap == CapInitial /\ [][CapNext]_vars

(* C8: the returned text is the complete output of the child, in order,    *)
(* and the same text was written to the controller's own output.           *)
C8_OutputCompleteAndMirrored ==
    cap_pc = "returned" =>
       /\ cap_ret.output = Concat(emitted)
       /\ stdout = cap_ret.output

(* C9: capture_subprocess_output has not returned while the child runs,    *)
(* and the returned flag is true exactly when the exit status is 0.        *)
C9_ReturnsAfterExitWithStatus ==
    cap_pc = "returned" =>
       /\ child = "exited"
       /\ cap_ret.success <=> (return_code = 0)

(* A call that returned failure for a child that wrote and exited 1 *)
C9_Witness ==
    /\ cap_pc = "returned"
    /\ return_code = 1
    /\ ~cap_ret.success
    /\ emitted # <<>>
    /\ cap_ret.output # <<>>

-----------------------------------------------------------------------------
(* The source lines before the first line for which Stop holds; all of     *)
(* them when it holds for none                                             *)
C11_Before(lines, Stop(_)) ==
    LET hits == { k \in 1..Len(lines) : Stop(lines[k]) }
    IN  IF hits = {} THEN lines
        ELSE SubSeq(lines, 1, (CHOOSE k \in hits : \A j \in hits : k <= j) - 1)
(* A line whose text is exactly the marker, the line end aside *)
C11_IsExactMarker(l) == l = <<MARKER, NL>> \/ l = <<MARKER>>
(* A line that begins with the marker text *)
C11_BeginsWithMarker(l) == Len(l) >= 1 /\ l[1] = MARKER
C11_Applies == ext_pc = "mult_saved" /\ ext_src.exists

(* C11 as stated: the multiplier template holds exactly the source lines   *)
(* before the first line that exactly matches the marker, and the whole    *)
(* source when no line matches exactly.                                    *)
C11_AsStated ==
    C11_Applies =>
       /\ ext_out.raised = ""
       /\ ext_out.dir[Key(0)] = C11_Before(ext_src.lines, C11_IsExactMarker)

(* C11, amended: the multiplier template holds exactly the source lines,   *)
(* verbatim and in order, before the first line that begins with the       *)
(* marker text; that line and all later ones are not copied, and the whole *)
(* source is copied when no line begins with the marker.                   *)
C11_MultTemplateContent ==
    C11_Applies =>
       /\ ext_out.raised = ""
       /\ DOMAIN ext_out.dir = {Key(0)}
       /\ ext_out.dir[Key(0)] = C11_Before(ext_src.lines, C11_BeginsWithMarker)

(* Lines before the marker were copied, lines after it were not *)
C11_Witness ==
    /\ C11_Applies
    /\ ext_src.lines = <<CommentC, CodeLn, MarkerLn, CodeLn, Comment2>>
    /\ ext_out.dir[Key(0)] = <<CommentC, CodeLn>>

-----------------------------------------------------------------------------
(* What has happened in a round, read from the history of the run *)
ExitedOk(stage, r) ==
    \E e \in Range(exits) : e.stage = stage /\ e.round = r /\ e.rc = 0
(* The selection ran and returned: the log was there and every line parsed *)
SelectionReturned(stage, r) ==
    \E g \in Range(logs_read) :
       /\ g.stage = stage /\ g.round = r
       /\ g.log.exists
       /\ \A k \in 1..Len(g.log.lines) : g.log.lines[k] \in ParsedLines
(* The template extraction ran and wrote its template *)
Extracted(stage, r) ==
    \E x \in Range(srcs_read) :
       x.stage = stage /\ x.round = r /\ x.src.exists /\ ~x.name.isNone
StageAt(k) == IF k % 2 = 1 THEN "PPO" ELSE "MCTS"
RoundAt(k) == (k - 1) \div 2

-----------------------------------------------------------------------------
(* C13: the stage-1 job of round 0 is invoked without a template, that of  *)
(* every round r > 0 with the adder template that the extraction of round  *)
(* r-1 wrote; the template variable is never read while unbound.           *)
C13_Stage1Seed ==
    /\ raised # "NameError"
    /\ \A j \in Range(jobs) :
          j.stage = "PPO" =>
             IF j.round = 0
             THEN j.template = <<>>
             ELSE /\ j.template = <<"adder_template", str(j.round - 1)>>
                  /\ str(j.round - 1) \in DOMAIN adder_dir
                  /\ Extracted("MCTS", j.round - 1)

(* The PPO jobs of rounds 0, 1 and 2 have all been invoked *)
C13_Witness ==
    /\ \E j \in Range(jobs) : j.stage = "PPO" /\ j.round = 0 /\ j.template = <<>>
    /\ \E j \in Range(jobs) : j.stage = "PPO" /\ j.round = 2 /\ j.template # <<>>

(* The stage logs of this model from which a selection yields a winner *)
C14_GoodLogs ==
    { f \in MainLogs :
         /\ f.exists /\ f.lines # <<>>
         /\ \A k \in 1..Len(f.lines) : f.lines[k] \in ParsedLines }
(* <<log, area weight, name>>: a line of the log with that name has the    *)
(* least score of the log under that weight                                *)
C14_Winners ==
    UNION { { <<fw[1], fw[2], C1_Fields(fw[1].lines[k])[1]>> :
                 k \in { m \in 1..Len(fw[1].lines) :
                           \A h \in 1..Len(fw[1].lines) :
                              C1_Score(fw[1].lines[m], fw[2])
                                 <= C1_Score(fw[1].lines[h], fw[2]) } } :
            fw \in C14_GoodLogs \X (0..MaxW) }
(* <<source, content>>: the multiplier template of this model's sources *)
C14_MultTemplates ==
    { <<m, C11_Before(m.lines, C11_BeginsWithMarker)>> :
         m \in { f \in MainSources : f.exists } }

(* C14: the stage-2 job of round r is invoked with the multiplier template *)
(* written in round r from the source of that round's stage-1 winner, with *)
(* the key of round r, and with --init_state exactly when r > 0.           *)
C14_Stage2Arguments ==
    \A j \in Range(jobs) :
       j.stage = "MCTS" =>
          /\ j.key = str(j.round)
          /\ j.template = <<"mult_template", str(j.round)>>
          /\ j.init_state <=> (j.round > 0)
          /\ str(j.round) \in DOMAIN mult_dir
          /\ \E g \in Range(logs_read), x \in Range(srcs_read) :
                /\ g.stage = "PPO" /\ g.round = j.round
                /\ x.stage = "PPO" /\ x.round = j.round
                /\ ~x.name.isNone
                /\ <<g.log, area_w, x.name.v>> \in C14_Winners
                /\ <<x.src, mult_dir[str(j.round)]>> \in C14_MultTemplates

(* The MCTS jobs of round 0 and of round 1 have been invoked *)
C14_Witness ==
    /\ \E j \in Range(jobs) : j.stage = "MCTS" /\ j.round = 0 /\ ~j.init_state
    /\ \E j \in Range(jobs) : j.stage = "MCTS" /\ j.round = 1 /\ j.init_state

(* A selection that did not yield a winner: the log is missing or empty,   *)
(* or a line of it does not parse                                          *)
C15_SelectionFailed(g) ==
    \/ ~g.log.exists
    \/ g.log.lines = <<>>
    \/ \E k \in 1..Len(g.log.lines) : g.log.lines[k] \notin ParsedLines
C15_JobIndex(stage, r) == 2 * r + (IF stage = "PPO" THEN 1 ELSE 2)

(* C15: each stage job is invoked at most once per round, and after the    *)
(* first failure (a non-zero exit or a failed selection) no external job   *)
(* is invoked again.                                                       *)
C15_NoRetry ==
    /\ \A k \in 1..Len(jobs), h \in 1..Len(jobs) :
          (jobs[k].stage = jobs[h].stage /\ jobs[k].round = jobs[h].round) => k = h
    /\ \A k \in 1..Len(exits) : exits[k].rc # 0 => Len(jobs) = k
    /\ \A g \in Range(logs_read) :
          C15_SelectionFailed(g) => Len(jobs) = C15_JobIndex(g.stage, g.round)

(* The MCTS job of round 1 failed and the run has ended *)
C15_Witness ==
    /\ pc = "done"
    /\ \E e \in Range(exits) : e.stage = "MCTS" /\ e.round = 1 /\ e.rc # 0

-----------------------------------------------------------------------------
(* C16: when the winner's source file is missing at a template extraction, *)
(* the run ends as a reported failure: a diagnostic line is in the run log *)
(* and no template file of that stage and round is created.                *)
C16_MissingSourceReported ==
    \A x \in Range(srcs_read) :
       (~x.src.exists /\ ~x.name.isNone) =>
          /\ Aborted
          /\ \E k \in 1..Len(flog) :
                IsErrorLine(flog[k]) /\ RoundOf(flog[k]) = str(x.round)
          /\ IF x.stage = "PPO"
             THEN str(x.round) \notin DOMAIN mult_dir
             ELSE str(x.round) \notin DOMAIN adder_dir

-----------------------------------------------------------------------------
NoFailure ==
    /\ raised = ""
    /\ AllJobsExitZero
    /\ \A g \in Range(logs_read) : ~C15_SelectionFailed(g)
    /\ SourcesPresent
Written(stage) ==
    { k \in 1..Len(srcs_read) :
         /\ srcs_read[k].stage = stage
         /\ srcs_read[k].src.exists /\ ~srcs_read[k].name.isNone }

(* A run that ended without failure ran exactly total_times rounds *)
C17_AllRoundsRun ==
    (pc \in {"final", "done"} /\ NoFailure) =>
       /\ Count(IsIterLine) = total_times
       /\ Len(jobs) = 2 * total_times
       /\ { j.round : j \in Range(jobs) } = 0..(total_times - 1)
(* The keys of the jobs of one stage are pairwise distinct, and each       *)
(* directory holds one template per extraction that wrote one              *)
C17_KeysDistinct ==
    /\ \A k \in 1..Len(jobs), h \in 1..Len(jobs) :
          (k # h /\ jobs[k].stage = jobs[h].stage) => jobs[k].key # jobs[h].key
    /\ Cardinality(DOMAIN mult_dir) = Cardinality(Written("PPO"))
    /\ Cardinality(DOMAIN adder_dir) = Cardinality(Written("MCTS"))
(* A step leaves every template that exists in place and unchanged *)
C17_TemplatesKept ==
    /\ \A n \in DOMAIN mult_dir :
          n \in DOMAIN mult_dir' /\ mult_dir'[n] = mult_dir[n]
    /\ \A n \in DOMAIN adder_dir :
          n \in DOMAIN adder_dir' /\ adder_dir'[n] = adder_dir[n]

-----------------------------------------------------------------------------
(* The indices of the Iteration lines of the run log, in order *)
RECURSIVE IterIndices(_)
IterIndices(log) ==
    IF log = <<>> THEN <<>>
    ELSE (IF IsIterLine(Head(log)) THEN <<RoundOf(Head(log))>> ELSE <<>>)
            \o IterIndices(Tail(log))

-----------------------------------------------------------------------------
(* What has been flushed of the run log only grows, and what was written   *)
(* is never changed                                                        *)
C19_AppendOnly ==
    [][/\ flushed' >= flushed
       /\ Len(flog') >= Len(flog)
       /\ SubSeq(flog', 1, Len(flog)) = flog]_vars

(* C19: whenever the controller waits on an external job, or has just      *)
(* written an error line, every line written to the run log so far has     *)
(* been flushed.                                                           *)
C19_FlushedWhenBlockedOrAfterError ==
    (\/ pc \in {"stage1_run", "stage2_run"}
     \/ (flog # <<>> /\ IsErrorLine(flog[Len(flog)])))
       => flushed = Len(flog)

-----------------------------------------------------------------------------
(* The controller is a running thread: each of its steps is taken once it  *)
(* stays possible.  Nothing is assumed of the child, which may run forever *)
SpecCapFair ==
    /\ SpecCap
    /\ WF_vars(Poll)
    /\ WF_vars(SelectAndRead)
    /\ WF_vars(Return)

(* C20: once the child has exited, capture_subprocess_output returns: the  *)
(* select without timeout does not block forever after the exit, however   *)
(* the poll, the select and the exit interleave.                           *)
C20_ReturnsAfterChildExit == (child = "exited") ~> (cap_pc = "returned")

(* The child exited, with nothing left to read, after the controller had   *)
(* found it running and gone into select                                   *)
C20_Witness ==
    /\ child = "exited"
    /\ cap_pc = "select"
    /\ pipe = <<>>
    /\ rdbuf = <<>>

====
